---------------------------- MODULE Spec2Model ----------------------------
(***************************************************************************)
(* Student result portal (script.js): the CSV parser, the record builder,  *)
(* the column resolver and the three-level cascade of selection controls.  *)
(*                                                                         *)
(* A JavaScript string is modelled as a sequence of one-character strings, *)
(* so that trimming, lower-casing and the parser's character scan are      *)
(* computed character by character.  <<>> is the empty string "".          *)
(* Positions keep the source's 0-based numbering: text[i] of the source is *)
(* text[i + 1] here.                                                       *)
(***************************************************************************)
EXTENDS Integers, Sequences, FiniteSets, TLC

VARIABLES
    \* parseCSV's locals (script.js 46-49) and its argument
    text, i, inQuotes, field, row, out,
    \* arguments of the pure functions when they are run on their own
    matrix, aliases,
    \* app state (script.js 23-29)
    rows, headers, idx,
    \* the argument and the result of a call of uniqueSorted (script.js 197)
    cells, classes,
    \* configuration (script.js 10)
    csvUrl,
    \* the page: the three selects, the result card, the no-match note, the
    \* rendered table row, the status box, the bound event listeners
    classSelect, divSelect, rollSelect, cardHidden, noMatchHidden, table,
    status, listeners,
    \* the position of the running function or of init
    pc

parserVars == <<text, i, inQuotes, field, row, out>>
inputVars  == <<matrix, aliases, cells, classes>>
appVars    == <<rows, headers, idx>>
pageVars   == <<csvUrl, classSelect, divSelect, rollSelect, cardHidden,
                noMatchHidden, table, status, listeners>>
nonParserVars == <<inputVars, rows, headers, idx, pageVars>>
vars       == <<text, i, inQuotes, field, row, out, inputVars,
                rows, headers, idx, pageVars, pc>>

-----------------------------------------------------------------------------
(* Characters *)

Quote == "\""
Comma == ","
Tab   == "\t"
CR    == "\r"
LF    == "\n"
Space == " "

\* "" as a string of the program
Empty == <<>>

-----------------------------------------------------------------------------
(* parseCSV, script.js 45-93 *)

\* let row = [], field = "", i = 0, inQuotes = false; const out = []
parseStart ==
    [i |-> 0, inQuotes |-> FALSE, field |-> Empty, row |-> <<>>, out |-> <<>>]

\* const char = text[i]
charAt(t, p) == t[p.i + 1]

\* text[i + 1] === c  (undefined past the end of the text, so false there)
nextIs(t, p, c) == p.i + 2 <= Len(t) /\ t[p.i + 2] = c

\* line 54
IsQuote(t, p) == charAt(t, p) = Quote

\* line 55
IsEscapedQuote(t, p) == IsQuote(t, p) /\ p.inQuotes /\ nextIs(t, p, Quote)

\* line 65 without the !inQuotes test
IsDelimiterAnywhere(t, p) == ~IsQuote(t, p) /\ charAt(t, p) \in {Comma, Tab}

\* line 65
IsDelimiter(t, p) ==
    ~IsQuote(t, p) /\ ~p.inQuotes /\ charAt(t, p) \in {Comma, Tab}

\* line 72 testing for "\n" alone
IsNewlineLFOnly(t, p) ==
    ~IsQuote(t, p) /\ ~IsDelimiter(t, p) /\ ~p.inQuotes /\ charAt(t, p) = LF

\* line 72
IsNewline(t, p) ==
    ~IsQuote(t, p) /\ ~IsDelimiter(t, p)
    /\ ~p.inQuotes /\ charAt(t, p) \in {CR, LF}

\* lines 56-58 advancing by one
escapedQuoteOneChar(p) == [p EXCEPT !.field = Append(@, Quote), !.i = @ + 1]

\* lines 56-58
escapedQuote(p) == [p EXCEPT !.field = Append(@, Quote), !.i = @ + 2]

\* lines 60-62
toggleQuote(p) == [p EXCEPT !.inQuotes = ~@, !.i = @ + 1]

\* lines 66-69 without field = ""
endFieldKeepsField(p) == [p EXCEPT !.row = Append(@, p.field), !.i = @ + 1]

\* lines 66-69
endField(p) ==
    [p EXCEPT !.row = Append(@, p.field), !.field = Empty, !.i = @ + 1]

\* lines 73-78 without the blank-line test
pushRowAlways(p) ==
    [p EXCEPT !.out = Append(@, Append(p.row, p.field)),
              !.row = <<>>, !.field = Empty]

\* lines 73-78: if (field !== "" || row.length) { push, push, reset }
pushRow(p) ==
    IF p.field # Empty \/ Len(p.row) > 0
    THEN [p EXCEPT !.out = Append(@, Append(p.row, p.field)),
                   !.row = <<>>, !.field = Empty]
    ELSE p

\* lines 80-81: a \r\n pair is consumed as one terminator
newlineWidth(t, p) == IF charAt(t, p) = CR /\ nextIs(t, p, LF) THEN 2 ELSE 1

\* lines 73-82
endRow(t, p) == [pushRow(p) EXCEPT !.i = @ + newlineWidth(t, p)]

\* lines 85-86
accumulate(t, p) == [p EXCEPT !.field = Append(@, charAt(t, p)), !.i = @ + 1]

\* lines 88-91 testing field !== "" alone
flushNonEmptyField(p) ==
    IF p.field # Empty
    THEN [p EXCEPT !.row = Append(@, p.field),
                   !.out = Append(@, Append(p.row, p.field))]
    ELSE p

\* lines 88-91: the final flush; row.push mutates row, field is left as it is
flush(p) ==
    IF p.field # Empty \/ Len(p.row) > 0
    THEN [p EXCEPT !.row = Append(@, p.field),
                   !.out = Append(@, Append(p.row, p.field))]
    ELSE p

\* one iteration of the while loop, lines 52-86
scanStep(t, p) ==
    CASE IsEscapedQuote(t, p) -> escapedQuote(p)
      [] IsQuote(t, p) /\ ~IsEscapedQuote(t, p) -> toggleQuote(p)
      [] IsDelimiter(t, p) -> endField(p)
      [] IsNewline(t, p) -> endRow(t, p)
      [] OTHER -> accumulate(t, p)

\* the while loop, lines 51-87: the locals when the scan leaves the loop
RECURSIVE scanFrom(_, _)
scanFrom(t, p) == IF p.i < Len(t) THEN scanFrom(t, scanStep(t, p)) ELSE p

scan(t) == scanFrom(t, parseStart)

\* the value parseCSV returns, line 92
parseCSV(t) == flush(scan(t)).out

-----------------------------------------------------------------------------
(* toObjects, script.js 95-106 *)

\* an object with no own property: const obj = {}
NoProps == [h \in {} |-> Empty]

\* r[i + 1] of the source, one position too far
cellAtNext(r, k) == IF k + 1 <= Len(r) THEN r[k + 1] ELSE Empty

\* r[i] ?? "" (line 102): undefined past the end of the row
cellAt(r, k) == IF k <= Len(r) THEN r[k] ELSE Empty

\* the assignment with the key already present kept
putFirst(obj, h, v) == obj @@ (h :> v)

\* obj[h] = v (line 102): a later assignment to the same key replaces the value
put(obj, h, v) == (h :> v) @@ obj

\* head.forEach((h, i) => { obj[h] = r[i] ?? ""; }) from position k on
RECURSIVE fillFrom(_, _, _, _)
fillFrom(head, r, k, obj) ==
    IF k > Len(head) THEN obj
    ELSE fillFrom(head, r, k + 1, put(obj, head[k], cellAt(r, k)))

\* lines 100-104: the record of one data row
toObject(head, r) == fillFrom(head, r, 1, NoProps)

\* line 96: matrix[0] || []
headOf(m) == IF Len(m) > 0 THEN m[1] ELSE <<>>

\* line 97: matrix.slice(1)
dataOf(m) == IF Len(m) > 0 THEN Tail(m) ELSE <<>>

\* lines 95-106
toObjects(m) ==
    [headers |-> headOf(m),
     rows |-> [r \in 1..Len(dataOf(m)) |-> toObject(headOf(m), dataOf(m)[r])]]

-----------------------------------------------------------------------------
(* normalize, lower, script.js 108-113 *)

Whitespace == {Space, Tab, CR, LF}

UpperCase == <<"A", "B", "C", "D", "E", "F", "G", "H", "I", "J", "K", "L", "M",
               "N", "O", "P", "Q", "R", "S", "T", "U", "V", "W", "X", "Y", "Z">>

LowerCase == <<"a", "b", "c", "d", "e", "f", "g", "h", "i", "j", "k", "l", "m",
               "n", "o", "p", "q", "r", "s", "t", "u", "v", "w", "x", "y", "z">>

\* String.prototype.trim: leading, then trailing white space removed
RECURSIVE trimStart(_)
trimStart(s) ==
    IF s # <<>> /\ Head(s) \in Whitespace THEN trimStart(Tail(s)) ELSE s

RECURSIVE trimEnd(_)
trimEnd(s) ==
    IF s # <<>> /\ s[Len(s)] \in Whitespace
    THEN trimEnd(SubSeq(s, 1, Len(s) - 1))
    ELSE s

\* line 109: String(s || "").trim()
normalize(s) == trimEnd(trimStart(s))

toLowerChar(c) ==
    IF \E k \in 1..Len(UpperCase) : UpperCase[k] = c
    THEN LowerCase[CHOOSE k \in 1..Len(UpperCase) : UpperCase[k] = c]
    ELSE c

\* String.prototype.toLowerCase
toLowerCase(s) == [k \in 1..Len(s) |-> toLowerChar(s[k])]

\* line 112
lower(s) == toLowerCase(normalize(s))

\* String.prototype.includes
includes(s, sub) ==
    \E k \in 0..(Len(s) - Len(sub)) : SubSeq(s, k + 1, k + Len(sub)) = sub

\* Array.prototype.indexOf, 1-based here: 0 when x is no element (-1 there)
indexOf(a, x) ==
    IF \E k \in 1..Len(a) : a[k] = x
    THEN CHOOSE k \in 1..Len(a) : a[k] = x /\ \A j \in 1..(k - 1) : a[j] # x
    ELSE 0

-----------------------------------------------------------------------------
(* resolveColumns, script.js 115-132 *)

\* null: a value that is no string (its element is not a character)
Null == <<"null">>

\* !v for a string or null
Falsy(v) == v = Null \/ v = Empty

Roles == <<"class", "division", "roll">>

\* the role name as the string the source passes to includes()
roleName(key) ==
    CASE key = "class" -> <<"c", "l", "a", "s", "s">>
      [] key = "division" -> <<"d", "i", "v", "i", "s", "i", "o", "n">>
      [] key = "roll" -> <<"r", "o", "l", "l">>

\* line 117
lowerHeaders(hs) == [k \in 1..Len(hs) |-> lower(hs[k])]

\* lines 121-124: the first candidate, from position k on, that is an
\* element of lowerHeaders binds the role and ends the loop
RECURSIVE byAliasFrom(_, _, _)
byAliasFrom(hs, cands, k) ==
    IF k > Len(cands) THEN Null
    ELSE IF indexOf(lowerHeaders(hs), cands[k]) # 0
         THEN hs[indexOf(lowerHeaders(hs), cands[k])]
         ELSE byAliasFrom(hs, cands, k + 1)

byAlias(hs, cands) == byAliasFrom(hs, cands, 1)

\* line 127: headers.find(h => lower(h).includes(key)); Null when none
bySubstring(hs, key) ==
    IF \E k \in 1..Len(hs) : includes(lower(hs[k]), roleName(key))
    THEN hs[CHOOSE k \in 1..Len(hs) :
                /\ includes(lower(hs[k]), roleName(key))
                /\ \A j \in 1..(k - 1) : ~includes(lower(hs[j]), roleName(key))]
    ELSE Null

\* lines 120-129 for one role
resolveRole(hs, als, key) ==
    LET found == byAlias(hs, als[key])
    IN  IF Falsy(found)
        THEN (IF ~Falsy(bySubstring(hs, key)) THEN bySubstring(hs, key)
              ELSE found)
        ELSE found

\* lines 115-132
resolveColumns(hs, als) ==
    [key \in {Roles[k] : k \in 1..Len(Roles)} |-> resolveRole(hs, als, key)]

\* lines 16-20
COLUMN_ALIASES ==
    [class |-> << <<"c", "l", "a", "s", "s">>, <<"s", "t", "d">>,
                  <<"g", "r", "a", "d", "e">> >>,
     division |-> << <<"d", "i", "v", "i", "s", "i", "o", "n">>,
                     <<"d", "i", "v">>,
                     <<"s", "e", "c", "t", "i", "o", "n">> >>,
     roll |-> << <<"r", "o", "l", "l">>,
                 <<"r", "o", "l", "l", "n", "o">>,
                 <<"r", "o", "l", "l", Space, "n", "o">>,
                 <<"r", "o", "l", "l", Space, "n", "u", "m", "b", "e", "r">>,
                 <<"r", "o", "l", "l", "_", "n", "u", "m", "b", "e", "r">> >>]

-----------------------------------------------------------------------------
(* uniqueSorted, script.js 134-141 *)

Digits == <<"0", "1", "2", "3", "4", "5", "6", "7", "8", "9">>

isDigit(c) == \E d \in 1..Len(Digits) : Digits[d] = c

digitValue(c) == (CHOOSE d \in 1..Len(Digits) : Digits[d] = c) - 1

\* NaN: values are non-negative here, so no number is taken for it
NaN == -1

RECURSIVE decimal(_)
decimal(s) ==
    IF s = <<>> THEN 0
    ELSE decimal(SubSeq(s, 1, Len(s) - 1)) * 10 + digitValue(s[Len(s)])

\* Number(s) for strings of digits, letters and white space that spell no
\* other numeric literal (no sign, point, exponent or radix prefix): white
\* space is trimmed, a digit string has its decimal value, "" is 0
Number(s) ==
    IF \A k \in 1..Len(normalize(s)) : isDigit(normalize(s)[k])
    THEN decimal(normalize(s))
    ELSE NaN

\* the collation rank of a character at base sensitivity: white space,
\* punctuation, digits, then letters with case ignored
rank(c) ==
    IF c \in Whitespace THEN 0
    ELSE IF isDigit(c) THEN 2 + digitValue(c)
    ELSE IF \E k \in 1..Len(LowerCase) : LowerCase[k] = toLowerChar(c)
         THEN 12 + (CHOOSE k \in 1..Len(LowerCase) :
                        LowerCase[k] = toLowerChar(c))
         ELSE 1

RECURSIVE digitRun(_)
digitRun(s) ==
    IF s # <<>> /\ isDigit(Head(s)) THEN 1 + digitRun(Tail(s)) ELSE 0

sign(n) == IF n < 0 THEN -1 ELSE IF n > 0 THEN 1 ELSE 0

\* a.localeCompare(b, undefined, { numeric: true, sensitivity: "base" }):
\* runs of digits compare by value, other characters by rank
RECURSIVE localeCompare(_, _)
localeCompare(a, b) ==
    IF a = <<>> \/ b = <<>> THEN sign(Len(a) - Len(b))
    ELSE IF isDigit(Head(a)) /\ isDigit(Head(b))
    THEN LET da == digitRun(a)
             db == digitRun(b)
             na == decimal(SubSeq(a, 1, da))
             nb == decimal(SubSeq(b, 1, db))
         IN  IF na # nb THEN sign(na - nb)
             ELSE localeCompare(SubSeq(a, da + 1, Len(a)),
                                SubSeq(b, db + 1, Len(b)))
    ELSE IF rank(Head(a)) # rank(Head(b))
    THEN sign(rank(Head(a)) - rank(Head(b)))
    ELSE localeCompare(Tail(a), Tail(b))

\* the default comparator of Array.prototype.sort: by code unit
RECURSIVE compareCodeUnits(_, _)
compareCodeUnits(a, b) ==
    IF a = <<>> \/ b = <<>> THEN sign(Len(a) - Len(b))
    ELSE IF rank(Head(a)) # rank(Head(b))
    THEN sign(rank(Head(a)) - rank(Head(b)))
    ELSE compareCodeUnits(Tail(a), Tail(b))

\* the comparator of lines 136-139
compare(a, b) ==
    IF Number(a) # NaN /\ Number(b) # NaN
    THEN Number(a) - Number(b)
    ELSE localeCompare(a, b)

\* values.map(v => normalize(v)).filter(Boolean)
RECURSIVE nonEmptyNormalized(_)
nonEmptyNormalized(vs) ==
    IF vs = <<>> THEN <<>>
    ELSE (IF normalize(Head(vs)) # Empty THEN <<normalize(Head(vs))>>
          ELSE <<>>) \o nonEmptyNormalized(Tail(vs))

\* [...new Set(vs)]: the first occurrence of each value, in order
RECURSIVE distinct(_)
distinct(vs) ==
    IF vs = <<>> THEN <<>>
    ELSE LET front == distinct(SubSeq(vs, 1, Len(vs) - 1))
             last == vs[Len(vs)]
         IN  IF \E k \in 1..Len(front) : front[k] = last THEN front
             ELSE Append(front, last)

\* Array.prototype.sort is stable: x goes behind the elements not after it
insert(sorted, x) ==
    LET n == Cardinality({k \in 1..Len(sorted) : compare(sorted[k], x) <= 0})
    IN  SubSeq(sorted, 1, n) \o <<x>> \o SubSeq(sorted, n + 1, Len(sorted))

RECURSIVE sort(_)
sort(vs) ==
    IF vs = <<>> THEN <<>>
    ELSE insert(sort(SubSeq(vs, 1, Len(vs) - 1)), vs[Len(vs)])

\* lines 134-141
uniqueSorted(vs) == sort(distinct(nonEmptyNormalized(vs)))

-----------------------------------------------------------------------------
(* The page: fillSelect and the filters of the handlers, script.js 152-262 *)

\* r[h] fed to normalize: a missing property is undefined, which
\* normalize turns into ""
prop(r, h) == IF h \in DOMAIN r THEN r[h] ELSE Empty

\* rows.map(r => r[h])
column(rs, h) == [r \in 1..Len(rs) |-> prop(rs[r], h)]

\* Array.prototype.filter: the elements at the positions in S, in order
RECURSIVE keepFrom(_, _, _)
keepFrom(rs, S, k) ==
    IF k > Len(rs) THEN <<>>
    ELSE (IF k \in S THEN <<rs[k]>> ELSE <<>>) \o keepFrom(rs, S, k + 1)

filter(rs, S) == keepFrom(rs, S, 1)

\* lines 152-166: the options are replaced, the placeholder is selected,
\* and the select is disabled when there is nothing to choose
fillSelect(values) ==
    [options |-> values, value |-> Empty, disabled |-> Len(values) = 0]

\* line 212 comparing the cell as stored: r[idx.class] === normalize(cls)
inClassUntrimmed(r, ix, cls) == prop(r, ix.class) = normalize(cls)

\* normalize(r[idx.class]) === normalize(cls), lines 212, 230, 249
inClass(r, ix, cls) == normalize(prop(r, ix.class)) = normalize(cls)

\* lines 231, 250
inDivision(r, ix, div) == normalize(prop(r, ix.division)) = normalize(div)

\* line 251 comparing the cell as stored: r[idx.roll] === normalize(roll)
hasRollUntrimmed(r, ix, roll) == prop(r, ix.roll) = normalize(roll)

\* line 251
hasRoll(r, ix, roll) == normalize(prop(r, ix.roll)) = normalize(roll)

\* line 197
classValues(rs, ix) == uniqueSorted(column(rs, ix.class))

\* line 213 mapping rows instead of filtered
divisionValuesOfAll(rs, ix, cls) == uniqueSorted(column(rs, ix.division))

\* lines 212-213
divisionValues(rs, ix, cls) ==
    LET keep == {k \in 1..Len(rs) : inClass(rs[k], ix, cls)}
    IN  uniqueSorted(column(filter(rs, keep), ix.division))

\* lines 229-233
rollValues(rs, ix, cls, div) ==
    LET keep == {k \in 1..Len(rs) :
                    inClass(rs[k], ix, cls) /\ inDivision(rs[k], ix, div)}
    IN  uniqueSorted(column(filter(rs, keep), ix.roll))

\* lines 248-252 with findLast in the place of find
findLastRecord(rs, ix, cls, div, roll) ==
    LET keep == {k \in 1..Len(rs) :
                    /\ inClass(rs[k], ix, cls) /\ inDivision(rs[k], ix, div)
                    /\ hasRoll(rs[k], ix, roll)}
        found == filter(rs, keep)
    IN  IF found = <<>> THEN Null ELSE found[Len(found)]

\* lines 248-252: rows.find(...), Null when no record matches
findRecord(rs, ix, cls, div, roll) ==
    LET keep == {k \in 1..Len(rs) :
                    /\ inClass(rs[k], ix, cls) /\ inDivision(rs[k], ix, div)
                    /\ hasRoll(rs[k], ix, roll)}
    IN  IF filter(rs, keep) = <<>> THEN Null ELSE Head(filter(rs, keep))

\* line 296 testing idx.class alone
missingClassColumn(ix) == Falsy(ix.class)

\* line 296: !idx.class || !idx.division || !idx.roll
missingColumns(ix) ==
    Falsy(ix.class) \/ Falsy(ix.division) \/ Falsy(ix.roll)

\* line 279: !CSV_URL || CSV_URL.includes("XXXX")
unconfigured(url) == Falsy(url) \/ includes(url, <<"X", "X", "X", "X">>)

\* line 146-149: setStatus(msg, isError); an empty message only hides the box
setStatus(st, msg, isError) ==
    IF msg = "" THEN [st EXCEPT !.hidden = TRUE]
    ELSE [hidden |-> FALSE, text |-> msg, error |-> isError]

-----------------------------------------------------------------------------
(* parseCSV run one loop iteration at a time *)

cur == [i |-> i, inQuotes |-> inQuotes, field |-> field, row |-> row,
        out |-> out]

Assign(p) ==
    /\ i' = p.i
    /\ inQuotes' = p.inQuotes
    /\ field' = p.field
    /\ row' = p.row
    /\ out' = p.out

Starts(p) ==
    /\ i = p.i
    /\ inQuotes = p.inQuotes
    /\ field = p.field
    /\ row = p.row
    /\ out = p.out

InLoop == pc = "scan" /\ i < Len(text)

EscapedQuoteStep ==
    /\ InLoop /\ IsEscapedQuote(text, cur)
    /\ Assign(escapedQuote(cur))
    /\ UNCHANGED <<text, pc, nonParserVars>>

ToggleQuoteStep ==
    /\ InLoop /\ IsQuote(text, cur) /\ ~IsEscapedQuote(text, cur)
    /\ Assign(toggleQuote(cur))
    /\ UNCHANGED <<text, pc, nonParserVars>>

EndFieldStep ==
    /\ InLoop /\ IsDelimiter(text, cur)
    /\ Assign(endField(cur))
    /\ UNCHANGED <<text, pc, nonParserVars>>

EndRowStep ==
    /\ InLoop /\ IsNewline(text, cur)
    /\ Assign(endRow(text, cur))
    /\ UNCHANGED <<text, pc, nonParserVars>>

AccumulateStep ==
    /\ InLoop
    /\ ~IsQuote(text, cur) /\ ~IsDelimiter(text, cur) /\ ~IsNewline(text, cur)
    /\ Assign(accumulate(text, cur))
    /\ UNCHANGED <<text, pc, nonParserVars>>

FlushStep ==
    /\ pc = "scan" /\ ~(i < Len(text))
    /\ Assign(flush(cur))
    /\ pc' = "done"
    /\ UNCHANGED <<text, nonParserVars>>

NextCSV ==
    \/ EscapedQuoteStep
    \/ ToggleQuoteStep
    \/ EndFieldStep
    \/ EndRowStep
    \/ AccumulateStep
    \/ FlushStep

-----------------------------------------------------------------------------
(* Inputs *)

MaxLen == 4

Alphabet == {"a", "b", Comma, Tab, CR, LF, Quote}

SeqsUpTo(S, n) == UNION {[1..k -> S] : k \in 0..n}

\* a,"b,c",d
QuotedFieldExample ==
    <<"a", Comma, Quote, "b", Comma, "c", Quote, Comma, "d">>

\* "he said ""hi"""
EscapedQuoteExample ==
    <<Quote, "h", "e", Space, "s", "a", "i", "d", Space, Quote, Quote,
      "h", "i", Quote, Quote, Quote>>

Texts == SeqsUpTo(Alphabet, MaxLen) \cup {QuotedFieldExample, EscapedQuoteExample}

ParserIdle == text = Empty /\ Starts(parseStart)

SortIdle == cells = <<>> /\ classes = <<>>

InputIdle == matrix = <<>> /\ aliases = <<>> /\ SortIdle

AppIdle == rows = <<>> /\ headers = <<>> /\ idx = <<>>

\* the page as the document delivers it: the selects hold their placeholder
\* alone and are disabled, the card and the no-match note are hidden
htmlSelect == [options |-> <<>>, value |-> Empty, disabled |-> TRUE]

htmlStatus == [hidden |-> TRUE, text |-> "", error |-> FALSE]

PageStart ==
    /\ classSelect = htmlSelect /\ divSelect = htmlSelect
    /\ rollSelect = htmlSelect
    /\ cardHidden = TRUE /\ noMatchHidden = TRUE /\ table = Null
    /\ status = htmlStatus
    /\ listeners = {}

PageIdle == csvUrl = Empty /\ PageStart

InitCSV ==
    /\ text \in Texts
    /\ Starts(parseStart)
    /\ pc = "scan"
    /\ InputIdle /\ AppIdle /\ PageIdle

SpecCSV == InitCSV /\ [][NextCSV]_vars

\* the loop and the flush are straight-line code: a pending step is taken
FairSpecCSV == SpecCSV /\ WF_vars(NextCSV)

-----------------------------------------------------------------------------
(* The pure functions run on their own: one call each *)

MaxRows == 3
MaxCols == 2
MaxHeaders == 2
MaxAliases == 2

\* cells with no comma, tab, quote, CR or LF
Cells == {Empty, <<"a", Space>>}

\* rows have at least one cell, as every row parseCSV emits
CellRows == SeqsUpTo(Cells, MaxCols) \ {<<>>}

Matrices == SeqsUpTo(CellRows, MaxRows)

\* cells of a row joined by commas
RECURSIVE joinCells(_)
joinCells(r) ==
    IF r = <<>> THEN Empty
    ELSE IF Len(r) = 1 THEN r[1]
    ELSE r[1] \o <<Comma>> \o joinCells(Tail(r))

\* rows joined by line-feed
RECURSIVE serialize(_)
serialize(m) ==
    IF m = <<>> THEN Empty
    ELSE IF Len(m) = 1 THEN joinCells(m[1])
    ELSE joinCells(m[1]) \o <<LF>> \o serialize(Tail(m))

InitRoundTrip ==
    /\ matrix \in Matrices
    /\ pc = "call"
    /\ aliases = <<>> /\ SortIdle
    /\ ParserIdle /\ AppIdle /\ PageIdle

\* out = parseCSV(serialize(matrix))
RoundTripCall ==
    /\ pc = "call"
    /\ text' = serialize(matrix)
    /\ out' = parseCSV(text')
    /\ pc' = "returned"
    /\ UNCHANGED <<i, inQuotes, field, row, inputVars, appVars, pageVars>>

NextRoundTrip == RoundTripCall

SpecRoundTrip == InitRoundTrip /\ [][NextRoundTrip]_vars

InitObjects ==
    /\ matrix \in Matrices
    /\ pc = "call"
    /\ aliases = <<>> /\ SortIdle
    /\ ParserIdle /\ AppIdle /\ PageIdle

\* const { headers: hdrs, rows: objs } = toObjects(matrix), lines 289-292
ToObjectsCall ==
    /\ pc = "call"
    /\ headers' = toObjects(matrix).headers
    /\ rows' = toObjects(matrix).rows
    /\ pc' = "returned"
    /\ UNCHANGED <<parserVars, inputVars, idx, pageVars>>

NextObjects == ToObjectsCall

SpecObjects == InitObjects /\ [][NextObjects]_vars

\* Std, Section, RollNo
ExampleHeaders ==
    << <<"S", "t", "d">>, <<"S", "e", "c", "t", "i", "o", "n">>,
       <<"R", "o", "l", "l", "N", "o">> >>

\* StudentClassName
SubstringHeader ==
    <<"S", "t", "u", "d", "e", "n", "t", "C", "l", "a", "s", "s",
      "N", "a", "m", "e">>

HeaderNames ==
    {Empty, <<"S", "t", "d">>, <<Space, "s", "t", "d">>,
     <<"c", "l", "a", "s", "s">>, <<"x", "C", "l", "a", "s", "s">>,
     <<"d", "i", "v">>, <<"R", "O", "L", "L">>}

HeaderLists ==
    SeqsUpTo(HeaderNames, MaxHeaders)
        \cup {ExampleHeaders, <<SubstringHeader>>}

AliasNames ==
    {Empty, <<"s", "t", "d">>, <<"S", "t", "d">>, <<"c", "l", "a", "s", "s">>}

AliasLists == SeqsUpTo(AliasNames, MaxAliases)

AliasConfigs ==
    {COLUMN_ALIASES}
        \cup {[class |-> a, division |-> d, roll |-> COLUMN_ALIASES.roll] :
                 a \in AliasLists, d \in {COLUMN_ALIASES.division, <<>>}}

InitResolve ==
    /\ headers \in HeaderLists
    /\ aliases \in AliasConfigs
    /\ pc = "call"
    /\ matrix = <<>> /\ rows = <<>> /\ idx = <<>>
    /\ ParserIdle /\ PageIdle /\ SortIdle

\* idx = resolveColumns(headers, aliases), line 295
ResolveCall ==
    /\ pc = "call"
    /\ idx' = resolveColumns(headers, aliases)
    /\ pc' = "returned"
    /\ UNCHANGED <<parserVars, inputVars, rows, headers, pageVars>>

NextResolve == ResolveCall

SpecResolve == InitResolve /\ [][NextResolve]_vars

MaxValues == 3

\* cells that parse as numbers: 1, 2, 10, 2 behind a space, 02, and the
\* empty and the blank cell, which Number takes for 0
Numerals ==
    {<<"1">>, <<"2">>, <<"1", "0">>, <<Space, "2">>, <<"0", "2">>, Empty,
     <<Space>>}

InitSort ==
    /\ cells \in SeqsUpTo(Numerals, MaxValues)
    /\ classes = <<>>
    /\ pc = "call"
    /\ matrix = <<>> /\ aliases = <<>>
    /\ ParserIdle /\ AppIdle /\ PageIdle

\* const classes = uniqueSorted(cells), line 197
UniqueSortedCall ==
    /\ pc = "call"
    /\ classes' = uniqueSorted(cells)
    /\ pc' = "returned"
    /\ UNCHANGED <<parserVars, matrix, aliases, cells, appVars, pageVars>>

NextSort == UniqueSortedCall

SpecSort == InitSort /\ [][NextSort]_vars

-----------------------------------------------------------------------------
(* The page: init and the handlers, script.js 195-329 *)

MaxRecords == 3

sClass == <<"c", "l", "a", "s", "s">>
sDiv   == <<"d", "i", "v">>
sRoll  == <<"r", "o", "l", "l">>
sName  == <<"n", "a", "m", "e">>

\* the header rows of the published sheets: all three roles by alias; no
\* roll column; class and division found in one header by substring
HeaderRows ==
    {<<sClass, sDiv, sRoll, sName>>,
     <<(<<"S", "t", "d">>), <<"S", "e", "c", "t", "i", "o", "n">>, sName>>,
     <<sClass \o <<Space>> \o roleName("division"), sRoll, sName>>}

\* the data rows of the published sheets: class, division, roll, name
DataRows ==
    {<<(<<"1", "0">>), <<"A">>, <<"1">>, <<"x">> >>,
     <<(<<"1", "0">>), <<"a">>, <<"2">>, <<"x">> >>,
     <<(<<"9">>), <<"A">>, <<"1">>, <<"x">> >>,
     <<(<<Space, "1", "0">>), <<"A">>, <<"1", Space>>, <<"y">> >>,
     <<(<<"9">>), Empty, Empty, <<"x">> >>}

\* what the sheet's CSV link can deliver
Documents ==
    {Empty, <<LF>>}
        \cup {serialize(<<h>> \o d) :
                 h \in HeaderRows, d \in SeqsUpTo(DataRows, MaxRecords)}

\* CSV_URL as shipped, the placeholder of the template, and none
Urls == {<<"u", "r", "l">>, <<"X", "X", "X", "X">>, Empty}

Handlers == {"classChange", "divChange", "rollChange", "clear", "print"}

Init ==
    /\ csvUrl \in Urls
    /\ PageStart
    /\ rows = <<>> /\ headers = <<>>
    /\ idx = [class |-> Null, division |-> Null, roll |-> Null]
    /\ pc = "boot"
    /\ InputIdle /\ ParserIdle

\* the catch block, lines 322-326
Caught(msg) ==
    /\ status' = setStatus(status, msg, TRUE)
    /\ pc' = "failed"

\* lines 277-283: up to the first await
InitStart ==
    /\ pc = "boot"
    /\ IF unconfigured(csvUrl)
       THEN Caught("Please set CSV_URL")
       ELSE /\ status' = setStatus(status, "Fetching data", FALSE)
            /\ pc' = "fetching"
    /\ UNCHANGED <<parserVars, inputVars, appVars, csvUrl, classSelect,
                   divSelect, rollSelect, cardHidden, noMatchHidden, table,
                   listeners>>

\* line 283: the fetch is rejected
FetchRejected ==
    /\ pc = "fetching"
    /\ Caught("Failed to fetch")
    /\ UNCHANGED <<parserVars, inputVars, appVars, csvUrl, classSelect,
                   divSelect, rollSelect, cardHidden, noMatchHidden, table,
                   listeners>>

\* lines 283-286: the response arrives, up to the second await
FetchResponded(ok) ==
    /\ pc = "fetching"
    /\ IF ~ok
       THEN Caught("Failed to fetch CSV (status)")
       ELSE pc' = "reading" /\ UNCHANGED status
    /\ UNCHANGED <<parserVars, inputVars, appVars, csvUrl, classSelect,
                   divSelect, rollSelect, cardHidden, noMatchHidden, table,
                   listeners>>

\* line 286: reading the body is rejected
TextRejected ==
    /\ pc = "reading"
    /\ Caught("Failed to read")
    /\ UNCHANGED <<parserVars, inputVars, appVars, csvUrl, classSelect,
                   divSelect, rollSelect, cardHidden, noMatchHidden, table,
                   listeners>>

\* lines 197-198: the class select as cascadePopulate fills it
cascadePopulate(rs, ix) == fillSelect(classValues(rs, ix))

\* lines 286-321: the body arrives and init runs to its end
TextRead(t) ==
    /\ pc = "reading"
    /\ text' = t
    /\ LET m == parseCSV(t)
           o == toObjects(m)
           ix == resolveColumns(o.headers, COLUMN_ALIASES)
       IN  IF Len(m) = 0
           THEN /\ Caught("CSV appears empty.")
                /\ UNCHANGED <<appVars, classSelect, divSelect, rollSelect,
                               listeners>>
           ELSE /\ headers' = o.headers
                /\ rows' = o.rows
                /\ idx' = ix
                /\ IF missingColumns(ix)
                   THEN /\ Caught("Could not detect required columns.")
                        /\ UNCHANGED <<classSelect, divSelect, rollSelect,
                                       listeners>>
                   ELSE \* cascadePopulate(), then classSelect.disabled = false
                        /\ classSelect' =
                              [cascadePopulate(o.rows, ix)
                                  EXCEPT !.disabled = FALSE]
                        /\ divSelect' = [divSelect EXCEPT !.disabled = TRUE]
                        /\ rollSelect' = [rollSelect EXCEPT !.disabled = TRUE]
                        /\ listeners' = Handlers
                        /\ status' = setStatus(status, "", FALSE)
                        /\ pc' = "ready"
    /\ UNCHANGED <<i, inQuotes, field, row, out, inputVars, csvUrl,
                   cardHidden, noMatchHidden, table>>

\* the values a user can pick in a select: its options and the placeholder
Choices(sel) == {sel.options[k] : k \in 1..Len(sel.options)} \cup {Empty}

\* lines 216-217 without line 216
HideNoMatchOnly == noMatchHidden' = TRUE /\ UNCHANGED cardHidden

\* card.classList.add("hidden"); noMatch.classList.add("hidden"),
\* lines 208-209, 216-217, 225-226, 235-236, 244-245, 270-271
HideBoth == cardHidden' = TRUE /\ noMatchHidden' = TRUE

\* the user picks v in the class select; onClassChange, lines 203-218
ClassChange(v) ==
    /\ pc = "ready" /\ ~classSelect.disabled
    /\ v \in Choices(classSelect) /\ v # classSelect.value
    /\ classSelect' = [classSelect EXCEPT !.value = v]
    /\ IF "classChange" \in listeners
       THEN /\ divSelect' = IF Falsy(v) THEN fillSelect(<<>>)
                            ELSE fillSelect(divisionValues(rows, idx, v))
            /\ rollSelect' = fillSelect(<<>>)
            /\ HideBoth
       ELSE UNCHANGED <<divSelect, rollSelect, cardHidden, noMatchHidden>>
    /\ UNCHANGED <<parserVars, inputVars, appVars, csvUrl, table, status,
                   listeners, pc>>

\* the user picks v in the division select; onDivisionChange, lines 220-237
DivisionChange(v) ==
    /\ pc = "ready" /\ ~divSelect.disabled
    /\ v \in Choices(divSelect) /\ v # divSelect.value
    /\ divSelect' = [divSelect EXCEPT !.value = v]
    /\ IF "divChange" \in listeners
       THEN /\ rollSelect' =
                  IF Falsy(classSelect.value) \/ Falsy(v)
                  THEN fillSelect(<<>>)
                  ELSE fillSelect(rollValues(rows, idx, classSelect.value, v))
            /\ HideBoth
       ELSE UNCHANGED <<rollSelect, cardHidden, noMatchHidden>>
    /\ UNCHANGED <<parserVars, inputVars, appVars, csvUrl, classSelect, table,
                   status, listeners, pc>>

\* the user picks v in the roll select; onRollChange, lines 239-262
RollChange(v) ==
    /\ pc = "ready" /\ ~rollSelect.disabled
    /\ v \in Choices(rollSelect) /\ v # rollSelect.value
    /\ rollSelect' = [rollSelect EXCEPT !.value = v]
    /\ IF "rollChange" \in listeners
       THEN LET cls == classSelect.value
                div == divSelect.value
                match == findRecord(rows, idx, cls, div, v)
            IN  IF Falsy(cls) \/ Falsy(div) \/ Falsy(v)
                THEN HideBoth /\ UNCHANGED table
                ELSE IF match # Null
                THEN /\ table' = match
                     /\ cardHidden' = FALSE /\ noMatchHidden' = TRUE
                ELSE /\ cardHidden' = TRUE /\ noMatchHidden' = FALSE
                     /\ UNCHANGED table
       ELSE UNCHANGED <<cardHidden, noMatchHidden, table>>
    /\ UNCHANGED <<parserVars, inputVars, appVars, csvUrl, classSelect,
                   divSelect, status, listeners, pc>>

\* clearFilters without lines 266-269
ClearKeepsDownstream ==
    /\ pc = "ready" /\ "clear" \in listeners
    /\ classSelect' = [classSelect EXCEPT !.value = Empty]
    /\ HideBoth
    /\ UNCHANGED <<parserVars, inputVars, appVars, csvUrl, divSelect,
                   rollSelect, table, status, listeners, pc>>

\* clearFilters without line 270
ClearKeepsCard ==
    /\ pc = "ready" /\ "clear" \in listeners
    /\ classSelect' = [classSelect EXCEPT !.value = Empty]
    /\ divSelect' = [options |-> <<>>, value |-> Empty, disabled |-> TRUE]
    /\ rollSelect' = [options |-> <<>>, value |-> Empty, disabled |-> TRUE]
    /\ noMatchHidden' = TRUE
    /\ UNCHANGED <<parserVars, inputVars, appVars, csvUrl, cardHidden, table,
                   status, listeners, pc>>

\* the user clicks Clear; clearFilters, lines 264-272
Clear ==
    /\ pc = "ready" /\ "clear" \in listeners
    /\ classSelect' = [classSelect EXCEPT !.value = Empty]
    /\ divSelect' = [options |-> <<>>, value |-> Empty, disabled |-> TRUE]
    /\ rollSelect' = [options |-> <<>>, value |-> Empty, disabled |-> TRUE]
    /\ HideBoth
    /\ UNCHANGED <<parserVars, inputVars, appVars, csvUrl, table, status,
                   listeners, pc>>

Next ==
    \/ InitStart
    \/ FetchRejected
    \/ \E ok \in BOOLEAN : FetchResponded(ok)
    \/ TextRejected
    \/ \E t \in Documents : TextRead(t)
    \/ \E v \in Choices(classSelect) : ClassChange(v)
    \/ \E v \in Choices(divSelect) : DivisionChange(v)
    \/ \E v \in Choices(rollSelect) : RollChange(v)
    \/ Clear

Spec == Init /\ [][Next]_vars

-----------------------------------------------------------------------------
(* Claims about parseCSV, checked under SpecCSV *)

Scanning == pc = "scan" /\ i < Len(text)

\* C5: inside quotes a comma, tab, CR or LF is appended to the field and
\* ends neither field nor row; outside quotes a comma or tab ends exactly
\* one field.
C5_QuotedStep ==
    /\ (Scanning /\ inQuotes /\ text[i + 1] \in {Comma, Tab, CR, LF})
         => /\ field' = Append(field, text[i + 1])
            /\ row' = row /\ out' = out /\ inQuotes' /\ i' = i + 1
    /\ (Scanning /\ ~inQuotes /\ text[i + 1] \in {Comma, Tab})
         => /\ row' = Append(row, field) /\ field' = Empty
            /\ out' = out /\ ~inQuotes' /\ i' = i + 1

\* ... and a,"b,c",d parses to the single row [a, b,c, d].
C5_Example ==
    (pc = "done" /\ text = QuotedFieldExample)
        => out = << << <<"a">>, <<"b", Comma, "c">>, <<"d">> >> >>

C5_QuotedFields == [][C5_QuotedStep]_vars /\ []C5_Example

C5_Witness ==
    /\ pc = "done" /\ text = QuotedFieldExample
    /\ Len(out) = 1 /\ Len(out[1]) = 3 /\ out[1][2] = <<"b", Comma, "c">>

\* C6: inside quotes a quote followed by a quote appends one literal quote,
\* advances past both and stays inside quotes; any other quote toggles
\* inQuotes and adds nothing to the field.
C6_QuoteStep ==
    /\ (Scanning /\ text[i + 1] = Quote /\ inQuotes
          /\ i + 2 <= Len(text) /\ text[i + 2] = Quote)
         => /\ field' = Append(field, Quote) /\ i' = i + 2 /\ inQuotes'
            /\ row' = row /\ out' = out
    /\ (Scanning /\ text[i + 1] = Quote
          /\ ~(inQuotes /\ i + 2 <= Len(text) /\ text[i + 2] = Quote))
         => /\ inQuotes' = ~inQuotes /\ field' = field /\ i' = i + 1
            /\ row' = row /\ out' = out

\* ... and "he said ""hi""" parses to one row with the field he said "hi".
C6_Example ==
    (pc = "done" /\ text = EscapedQuoteExample)
        => out = << << <<"h", "e", Space, "s", "a", "i", "d", Space,
                         Quote, "h", "i", Quote>> >> >>

C6_EscapedQuotes == [][C6_QuoteStep]_vars /\ []C6_Example

C6_Witness ==
    /\ pc = "done" /\ text = EscapedQuoteExample
    /\ Len(out) = 1 /\ Len(out[1]) = 1 /\ Len(out[1][1]) = 12

HasChar(s, c) == \E k \in 1..Len(s) : s[k] = c

\* every \n replaced by \r\n
RECURSIVE ToCRLF(_)
ToCRLF(s) ==
    IF s = <<>> THEN <<>>
    ELSE (IF Head(s) = LF THEN <<CR, LF>> ELSE <<Head(s)>>) \o ToCRLF(Tail(s))

\* C7: for a text with no quote and no CR, the parse equals the parse of the
\* text with every LF replaced by CR LF.
C7_CRLFSameAsLF ==
    (pc = "done" /\ ~HasChar(text, Quote) /\ ~HasChar(text, CR))
        => out = parseCSV(ToCRLF(text))

C7_Witness ==
    /\ pc = "done" /\ text = <<"a", Comma, LF, "b">>
    /\ out = << << <<"a">>, Empty >>, << <<"b">> >> >>
    /\ parseCSV(<<"a", Comma, CR, LF, "b">>) = out

\* C8: every emitted row has a cell, a one-cell row is never the empty cell,
\* and a line terminator appended to a text that ends outside quotes does
\* not change the result; a,b\n is the one row [a, b].
C8_BlankLinesSuppressed ==
    /\ \A r \in 1..Len(out) :
          /\ Len(out[r]) >= 1
          /\ Len(out[r]) = 1 => out[r][1] # Empty
    /\ (pc = "done" /\ ~inQuotes)
          => \A term \in {<<LF>>, <<CR>>, <<CR, LF>>} :
                parseCSV(text \o term) = out
    /\ (pc = "done" /\ text = <<"a", Comma, "b", LF>>)
          => out = << << <<"a">>, <<"b">> >> >>

C8_Witness ==
    /\ pc = "done" /\ text = <<"a", LF, LF, "b">>
    /\ out = << << <<"a">> >>, << <<"b">> >> >>

\* the locals just before the loop iteration that opened the quotes the scan
\* of t is inside when it leaves the loop (k when the quotes never opened)
RECURSIVE openedFrom(_, _, _)
openedFrom(t, p, k) ==
    IF p.i < Len(t)
    THEN LET q == scanStep(t, p)
         IN  openedFrom(t, q, IF ~p.inQuotes /\ q.inQuotes THEN p ELSE k)
    ELSE k

opened(t) == openedFrom(t, parseStart, parseStart)

\* every doubled quote replaced by one quote
RECURSIVE Collapse(_)
Collapse(s) ==
    IF s = <<>> THEN <<>>
    ELSE IF Len(s) >= 2 /\ s[1] = Quote /\ s[2] = Quote
         THEN <<Quote>> \o Collapse(SubSeq(s, 3, Len(s)))
         ELSE <<Head(s)>> \o Collapse(Tail(s))

\* what follows the opening quote of an unterminated quoted section
AfterOpen(t) == SubSeq(t, opened(t).i + 2, Len(t))

\* C9 (scan): the scan position strictly increases on every iteration and
\* never passes the end of the text.
C9_Progress ==
    (pc = "scan" /\ i < Len(text)) => (i' > i /\ i' <= Len(text))

\* C9 (no error): while the scan is not finished a step is always possible.
C9_NeverStuck == pc = "done" \/ ENABLED NextCSV

\* C9 (unterminated quote): everything after the opening quote, delimiters
\* and newlines included and doubled quotes collapsed, is in one field.
C9_OneField ==
    (pc = "done" /\ inQuotes)
        => field = opened(text).field \o Collapse(AfterOpen(text))

\* C9 as claimed: ... and that field is flushed as part of the final row at
\* end of input.
C9_AlwaysFlushed ==
    (pc = "done" /\ inQuotes)
        => /\ C9_OneField
           /\ out = Append(opened(text).out, Append(opened(text).row, field))

\* C9 as amended: ... and that field is flushed as the last cell of the final
\* row at end of input, unless the field is empty and its row has no earlier
\* cell: then no row is emitted for it.
C9_FlushedUnlessBlank ==
    (pc = "done" /\ inQuotes)
        => out = IF field # Empty \/ Len(opened(text).row) > 0
                 THEN Append(opened(text).out,
                             Append(opened(text).row, field))
                 ELSE opened(text).out

C9_Terminates ==
    /\ [][C9_Progress]_vars
    /\ [](C9_NeverStuck /\ C9_OneField /\ C9_FlushedUnlessBlank)
    /\ <>(pc = "done")

C9_Witness ==
    /\ pc = "done" /\ inQuotes
    /\ text = <<"a", Quote, Comma, LF>>
    /\ out = << << <<"a", Comma, LF>> >> >>

-----------------------------------------------------------------------------
(* Claims about the round trip, checked under SpecRoundTrip *)

\* C1 as claimed: for every matrix of delimiter-free cells, parsing its
\* serialization returns the matrix.
C1_RoundTripAll == pc = "returned" => out = matrix

\* a row the parser takes for a blank line: one empty cell
BlankRow(r) == r = <<Empty>>

NoBlankRow(m) == \A r \in 1..Len(m) : ~BlankRow(m[r])

\* C1 as amended: for every matrix of delimiter-free cells in which no row
\* is a single empty cell, parsing its serialization returns the matrix.
C1_RoundTrip ==
    (pc = "returned" /\ NoBlankRow(matrix)) => out = matrix

C1_Witness ==
    /\ pc = "returned"
    /\ matrix = << <<Empty, <<"a", Space>> >>, << <<"a", Space>> >>,
                   <<Empty, Empty>> >>
    /\ out = matrix

-----------------------------------------------------------------------------
(* Claims about toObjects, checked under SpecObjects *)

Names(head) == {head[k] : k \in 1..Len(head)}

LastPos(head, h) ==
    CHOOSE k \in 1..Len(head) :
        head[k] = h /\ \A j \in (k + 1)..Len(head) : head[j] # h

RowCell(r, k) == IF k <= Len(r) THEN r[k] ELSE Empty

\* the parts of C10 that do not depend on which position a name stands for
C10_Shape ==
    /\ matrix = <<>> => (headers = <<>> /\ rows = <<>>)
    /\ matrix # <<>> =>
          /\ headers = matrix[1]
          /\ Len(rows) = Len(matrix) - 1
          /\ \A r \in 1..Len(rows) : DOMAIN rows[r] = Names(headers)

\* C10 as claimed: one record per later row, in order; each record has, for
\* every header, the row's cell at that header's position (the empty string
\* when the row is shorter); an empty matrix gives no headers and no records.
C10_CellAtEveryPosition ==
    pc = "returned" =>
        /\ C10_Shape
        /\ \A r \in 1..Len(rows) : \A k \in 1..Len(headers) :
              rows[r][headers[k]] = RowCell(matrix[r + 1], k)

\* C10 as amended: ... each record has, for every header name, the row's
\* cell at the last position of that name (the empty string when the row
\* does not reach it); cells beyond the header length are in no record.
C10_Records ==
    pc = "returned" =>
        /\ C10_Shape
        /\ \A r \in 1..Len(rows) : \A h \in Names(headers) :
              rows[r][h] = RowCell(matrix[r + 1], LastPos(headers, h))

C10_Witness ==
    /\ pc = "returned"
    /\ matrix = << <<Empty, <<"a", Space>> >>, << <<"a", Space>> >>,
                   <<Empty, Empty>> >>
    /\ Len(rows) = 2
    /\ rows[1][Empty] = <<"a", Space>> /\ rows[1][<<"a", Space>>] = Empty
    /\ rows[2][Empty] = Empty

Earliest(S) == CHOOSE k \in S : \A j \in S : k <= j

Positions(head, h) == {k \in 1..Len(head) : head[k] = h}

Largest(S) == CHOOSE k \in S : \A j \in S : j <= k

\* C11: when a header text stands at several positions, the record's value
\* under it is the cell at the last of them (the empty string when the row
\* does not reach it), and not the cell at the first when the two differ.
C11_LastWriteWins ==
    pc = "returned" =>
        \A r \in 1..Len(rows) : \A h \in Names(headers) :
            LET at == Positions(headers, h)
                first == RowCell(matrix[r + 1], Earliest(at))
                last == RowCell(matrix[r + 1], Largest(at))
            IN  Cardinality(at) >= 2 =>
                   /\ rows[r][h] = last
                   /\ first # last => rows[r][h] # first

C11_Witness ==
    /\ pc = "returned"
    /\ matrix = << <<Empty, Empty>>, << <<"a", Space>>, Empty>>,
                   << <<"a", Space>> >> >>
    /\ rows[1][Empty] = Empty /\ rows[2][Empty] = Empty

-----------------------------------------------------------------------------
(* Claims about resolveColumns, checked under SpecResolve *)

\* the aliases of a list that match some header when both sides are
\* lower-cased and trimmed
Matching(hs, cands) ==
    {k \in 1..Len(cands) : \E j \in 1..Len(hs) : lower(hs[j]) = lower(cands[k])}

\* C2: each role is bound to the original text of the first header whose
\* lower-cased, trimmed form equals the lower-cased, trimmed form of the
\* earliest alias of the role that matches any header.
C2_AliasResolution ==
    pc = "returned" =>
        \A n \in 1..Len(Roles) :
            LET cands == aliases[Roles[n]]
                hit == Matching(headers, cands)
            IN  hit # {} =>
                   idx[Roles[n]] =
                      headers[Earliest({j \in 1..Len(headers) :
                          lower(headers[j]) = lower(cands[Earliest(hit)])})]

-----------------------------------------------------------------------------
(* Claims about init and the page, checked under Spec *)

Selects == <<classSelect, divSelect, rollSelect>>

\* C3: after a successful init and any sequence of changes and clears, each
\* select with no selectable value is disabled.
C3_EmptyListDisabled ==
    pc = "ready" =>
        \A n \in 1..Len(Selects) :
            Selects[n].options = <<>> => Selects[n].disabled

Resolved(v) == v # Null /\ v # Empty

AllResolved ==
    Resolved(idx.class) /\ Resolved(idx.division) /\ Resolved(idx.roll)

\* C4: an init that ends on an unconfigured URL, a failed or non-success
\* fetch, an empty matrix or an unresolved role leaves every select
\* disabled, binds no handler and shows the status as an error; a select is
\* enabled or a handler bound only if all three roles are resolved.
C4_FatalErrorsKeepClosed ==
    /\ pc = "failed" =>
          /\ \A n \in 1..Len(Selects) : Selects[n].disabled
          /\ listeners = {}
          /\ ~status.hidden /\ status.error
    /\ pc = "ready" =>
          /\ csvUrl # Empty /\ ~includes(csvUrl, <<"X", "X", "X", "X">>)
          /\ parseCSV(text) # <<>>
          /\ headers = parseCSV(text)[1]
    /\ ((\E n \in 1..Len(Selects) : ~Selects[n].disabled) \/ listeners # {})
          => AllResolved

C4_Witness ==
    /\ pc = "failed"
    /\ status.text = "Could not detect required columns."
    /\ headers = <<(<<"S", "t", "d">>), <<"S", "e", "c", "t", "i", "o", "n">>,
                   sName>>
    /\ Resolved(idx.class) /\ Resolved(idx.division) /\ idx.roll = Null
    /\ \A n \in 1..Len(Selects) : Selects[n].disabled

\* the headers whose lower-cased, trimmed form contains the role name
Containing(hs, key) ==
    {j \in 1..Len(hs) : includes(toLowerCase(normalize(hs[j])), roleName(key))}

\* C12: the substring search is used for a role only when none of its
\* aliases matches a header; it then binds the role to the first header that
\* contains the role name and leaves the role unresolved when there is none;
\* an alias match on a later header wins over a substring match on an
\* earlier one.
C12_SubstringFallback ==
    pc = "returned" =>
        \A n \in 1..Len(Roles) :
            LET key == Roles[n]
                hit == Matching(headers, aliases[key])
                sub == Containing(headers, key)
            IN  /\ (hit = {} /\ sub # {}) => idx[key] = headers[Earliest(sub)]
                /\ (hit = {} /\ sub = {}) => idx[key] = Null
                /\ hit # {} =>
                      \E j \in 1..Len(headers) :
                          /\ idx[key] = headers[j]
                          /\ \E k \in hit :
                                lower(headers[j]) = lower(aliases[key][k])

\* C12 with the aliases as shipped
C12_ShippedAliases == aliases = COLUMN_ALIASES => C12_SubstringFallback

-----------------------------------------------------------------------------
(* Claims about the cascade and the lookup, checked under Spec *)

Range(s) == {s[k] : k \in 1..Len(s)}

NoRepeat(s) == \A a, b \in 1..Len(s) : a # b => s[a] # s[b]

\* the trimmed cell of record k in the column of a role
Cell(k, key) == normalize(prop(rows[k], idx[key]))

OfClass(cls) == {k \in 1..Len(rows) : Cell(k, "class") = cls}

OfClassDiv(cls, div) == {k \in OfClass(cls) : Cell(k, "division") = div}

OfAll(cls, div, roll) == {k \in OfClassDiv(cls, div) : Cell(k, "roll") = roll}

DivisionsOf(cls) == {Cell(k, "division") : k \in OfClass(cls)} \ {Empty}

RollsOf(cls, div) == {Cell(k, "roll") : k \in OfClassDiv(cls, div)} \ {Empty}

C13_Step ==
    /\ (/\ pc = "ready" /\ classSelect'.value # classSelect.value
        /\ classSelect'.value # Empty)
         => /\ Range(divSelect'.options) = DivisionsOf(classSelect'.value)
            /\ NoRepeat(divSelect'.options)
    /\ (/\ pc = "ready" /\ divSelect'.value # divSelect.value
        /\ divSelect'.value # Empty)
         => /\ Range(rollSelect'.options) =
                  RollsOf(classSelect'.value, divSelect'.value)
            /\ NoRepeat(rollSelect'.options)

\* C13: the step that selects a class leaves as division options exactly the
\* distinct non-empty trimmed division cells of the records whose trimmed
\* class cell equals the selection, and the step that selects a division
\* leaves as roll options exactly the distinct non-empty trimmed roll cells of
\* the records matching class and division; equality is case-sensitive.
C13_CascadeFiltering == [][C13_Step]_vars

C13_Witness ==
    /\ pc = "ready"
    /\ classSelect.value = <<"1", "0">>
    /\ Range(divSelect.options) = {<<"A">>, <<"a">>}
    /\ divSelect.value = <<"a">>
    /\ rollSelect.options = << <<"2">> >>
    /\ \E k \in 1..Len(rows) : Cell(k, "class") = <<"9">>

C14_Step ==
    (/\ pc = "ready" /\ rollSelect'.value # rollSelect.value
     /\ rollSelect'.value # Empty
     /\ classSelect.value # Empty /\ divSelect.value # Empty)
      => LET found == OfAll(normalize(classSelect.value),
                            normalize(divSelect.value),
                            normalize(rollSelect'.value))
         IN  IF found # {}
             THEN /\ ~cardHidden' /\ noMatchHidden'
                  /\ table' = rows[Earliest(found)]
             ELSE cardHidden' /\ ~noMatchHidden'

\* C14: with three non-empty selections the roll-change step shows the first
\* record in original order whose trimmed class, division and roll cells
\* equal the trimmed selections, never a later one, and shows the no-match
\* indicator exactly when there is no such record.
C14_Lookup == [][C14_Step]_vars

C14_Witness ==
    /\ pc = "ready" /\ ~cardHidden
    /\ Len(rows) >= 2 /\ table = rows[1] /\ rows[2] # rows[1]
    /\ {1, 2} \subseteq OfAll(classSelect.value, divSelect.value,
                              rollSelect.value)

Nothing == cardHidden /\ noMatchHidden

C15_Step ==
    /\ (\E v \in Choices(classSelect) : ClassChange(v))
         => (rollSelect.options = <<>> /\ rollSelect.disabled /\ Nothing)'
    /\ (\E v \in Choices(divSelect) : DivisionChange(v)) => Nothing'
    /\ Clear
         => (/\ classSelect.value = Empty
             /\ divSelect.disabled /\ divSelect.options = <<>>
             /\ rollSelect.disabled /\ rollSelect.options = <<>>
             /\ Nothing)'

\* C15: right after a class change the roll options are empty, the roll
\* select is disabled and neither the record nor the no-match indicator is
\* shown; right after a division change neither is shown; right after a
\* clear the class selection is empty, the division and roll selects are
\* disabled without options, and nothing is shown.
C15_UpstreamDiscards == [][C15_Step]_vars

C15_Witness ==
    /\ pc = "ready" /\ table # Null /\ Nothing
    /\ classSelect.value # Empty
    /\ divSelect.value = Empty /\ ~divSelect.disabled
    /\ rollSelect.disabled /\ rollSelect.options = <<>>

\* C17: the no-match indicator is never shown, and every roll value on offer
\* has a record under the current class and division selections.
C17_NoMatchUnreachable ==
    /\ noMatchHidden
    /\ pc = "ready" =>
          \A v \in Range(rollSelect.options) :
              OfAll(normalize(classSelect.value), normalize(divSelect.value),
                    normalize(v)) # {}

C17_Witness ==
    /\ pc = "ready" /\ ~cardHidden /\ noMatchHidden
    /\ rollSelect.value = <<"1">>
    /\ prop(table, idx.roll) = <<"1", Space>>

\* C18: whenever the result card is visible the three selections are
\* non-empty and the rendered record's trimmed class, division and roll
\* cells equal them.
C18_NoStaleResult ==
    ~cardHidden =>
        /\ pc = "ready"
        /\ classSelect.value # Empty /\ divSelect.value # Empty
        /\ rollSelect.value # Empty
        /\ normalize(prop(table, idx.class)) = classSelect.value
        /\ normalize(prop(table, idx.division)) = divSelect.value
        /\ normalize(prop(table, idx.roll)) = rollSelect.value

C18_Witness ==
    /\ pc = "ready" /\ ~cardHidden
    /\ classSelect.value = <<"9">>
    /\ OfClass(<<"1", "0">>) # {}
    /\ table \in Range(rows)

\* C19: the result card and the no-match indicator are never both visible,
\* and both are hidden whenever one of the three selections is empty.
C19_AtMostOne ==
    /\ cardHidden \/ noMatchHidden
    /\ (\/ classSelect.value = Empty \/ divSelect.value = Empty
        \/ rollSelect.value = Empty) => Nothing

C19_Witness ==
    /\ pc = "ready" /\ table # Null /\ Nothing
    /\ divSelect.value # Empty
    /\ rollSelect.value = Empty /\ ~rollSelect.disabled

\* C20: once init has succeeded, the division select is enabled only with a
\* class selected and then offers the division values of that class; the
\* roll select is enabled only with a class and a division selected and then
\* offers the roll values of that class and division.
C20_OptionsAgree ==
    pc = "ready" =>
        /\ ~divSelect.disabled =>
              /\ classSelect.value # Empty
              /\ Range(divSelect.options) = DivisionsOf(classSelect.value)
        /\ ~rollSelect.disabled =>
              /\ classSelect.value # Empty /\ divSelect.value # Empty
              /\ Range(rollSelect.options) =
                    RollsOf(classSelect.value, divSelect.value)

C20_Witness ==
    /\ pc = "ready"
    /\ ~divSelect.disabled /\ ~rollSelect.disabled
    /\ Len(classSelect.options) = 2 /\ Len(divSelect.options) = 2
    /\ rollSelect.options # <<>> /\ rollSelect.value = Empty

-----------------------------------------------------------------------------
(* Claims about uniqueSorted, checked under SpecSort *)

\* s is v without its leading and trailing white space
IsTrimOf(s, v) ==
    /\ s # <<>> => (s[1] \notin Whitespace /\ s[Len(s)] \notin Whitespace)
    /\ \E a \in 0..Len(v) :
          /\ a + Len(s) <= Len(v)
          /\ SubSeq(v, a + 1, a + Len(s)) = s
          /\ \A k \in 1..Len(v) :
                (k <= a \/ k > a + Len(s)) => v[k] \in Whitespace

\* the parts of v
Parts(v) == {SubSeq(v, a, b) : a, b \in 1..Len(v)}

\* the number a string of decimal digits spells
RECURSIVE Spelled(_)
Spelled(s) ==
    IF s = <<>> THEN 0
    ELSE 10 * Spelled(SubSeq(s, 1, Len(s) - 1))
           + (CHOOSE d \in 0..9 : Digits[d + 1] = s[Len(s)])

\* C16: for cells that all parse as non-negative decimal integers,
\* uniqueSorted returns the distinct trimmed non-empty strings in ascending
\* numeric order (2 before 10), with no empty string, no untrimmed string and
\* no string twice.
C16_NumericOrder ==
    pc = "returned" =>
        /\ \A k \in 1..Len(classes) :
              /\ classes[k] # Empty
              /\ \E c \in 1..Len(cells) : IsTrimOf(classes[k], cells[c])
        /\ \A c \in 1..Len(cells) :
              \A s \in Parts(cells[c]) \ {Empty} :
                  IsTrimOf(s, cells[c]) => s \in Range(classes)
        /\ NoRepeat(classes)
        /\ \A a, b \in 1..Len(classes) :
              a < b => Spelled(classes[a]) <= Spelled(classes[b])

C16_Witness ==
    /\ pc = "returned"
    /\ cells = << <<"1", "0">>, <<Space, "2">>, <<"2">> >>
    /\ classes = << <<"2">>, <<"1", "0">> >>

=============================================================================
